---- MODULE Spec2Model ----
(***************************************************************************)
(* Device action dispatch queue of the Personal Assistant Backend          *)
(* (src/main.py): POST /api/interactions enqueues a DeviceAction,          *)
(* GET /api/actions/next reserves one for a polling device, and            *)
(* POST /api/actions/{id}/complete reports its outcome.  The handlers run  *)
(* concurrently; every call on the "deviceaction" collection is one        *)
(* atomic step, a handler that makes two calls takes two steps.            *)
(* The database is configured (db is not None), so neither handler takes   *)
(* its "no database" exit.                                                 *)
(***************************************************************************)
EXTENDS Integers, Sequences, FiniteSets, TLC

\* ---------------------------------------------------------------- bounds
MaxActions == 2          \* documents the deviceaction collection may hold
MaxClock == 2            \* distinct readings of datetime.now()
MaxWords == 3            \* words and phrases in a text sent to /api/parse

\* ------------------------------------------------------- Optional[...]
None    == << >>
Some(x) == << x >>

\* the companion devices polling /api/actions/next, each with its own
\* device_id and each with at most one request in flight
Devices == { "d1", "d2" }

\* CompleteActionRequest.status / .result
CompleteStatuses == { "completed", "failed" }
Results == { None, Some("r1") }

\* Interaction.intent: Optional[Intent], as posted by the client
Intent(ty, target, action, value) ==
    [ type |-> ty, target |-> target, action |-> action, value |-> value,
      raw_text |-> None ]

IntentInputs ==
    { None,
      Some(Intent("unknown", None, None, None)),
      Some(Intent("open_app", Some("whatsapp"), Some("open"), None)),
      Some(Intent("toggle_setting", Some("wifi"), Some("on"), None)),
      Some(Intent("adjust_setting", Some("volume"), Some("increase"), Some(40))) }

\* further intents a client may post: fields left out, an action that is
\* not the one the classifier would give
ClientIntents ==
    { Some(Intent("open_app", None, None, None)),
      Some(Intent("open_app", Some("camera"), Some("launch"), None)),
      Some(Intent("toggle_setting", Some("wifi"), Some("off"), None)),
      Some(Intent("adjust_setting", Some("volume"), None, None)),
      Some(Intent("adjust_setting", Some("brightness"), Some("set"), Some(70))) }

\* ------------------------------------------------------------ the state
VARIABLES
    store,      \* db["deviceaction"]: the documents, in insertion order
    clock,      \* the latest reading of datetime.now(timezone.utc), 0: none
    pc,         \* per device: position inside its get_next_action request
    pending,    \* per device: the local variable `pending` of that request
    returned,   \* every DeviceAction get_next_action has returned, by device
    last,       \* the request served last and its response (for a
                \* completion also what the matched document held before)
    text,       \* ParseRequest.text of the request to /api/parse
    parsed      \* the Intent /api/parse has answered with, None before

vars == << store, clock, pc, pending, returned, last, text, parsed >>

\* ------------------------------------------------------------- helpers
\* DeviceAction.status values that end a record's life
Terminal(status) == status \in { "completed", "failed" }

\* variant: the id default is evaluated once and shared by every record
uuid4_Shared(docs) == 100 + 1

\* uuid4(): an identifier no earlier document carries
uuid4(docs) == 100 + Len(docs) + 1

\* the ObjectId the collection mints for an inserted document
ObjectId(docs) == Len(docs) + 1

\* the action ids a client may name in /api/actions/{action_id}/complete
ActionIds == { 100 + n : n \in 1..(MaxActions + 1) }

\* `x or ""`
OrEmpty(opt) == IF opt = None THEN "" ELSE opt[1]

\* DeviceAction(...) as built by create_interaction, with the model's defaults
DeviceAction(id, kind, target, action, value) ==
    [ id |-> id, kind |-> kind, target |-> target, action |-> action,
      value |-> value, status |-> "pending", device_id |-> None,
      result |-> None ]

Actionable(item_intent) ==
    /\ item_intent # None
    /\ item_intent[1].type \in { "open_app", "toggle_setting", "adjust_setting" }

\* variant: the intent's own action is copied for every type
ToAction_CopiesAction(intent, id) ==
    IF intent.type = "open_app"
    THEN DeviceAction(id, "open_app", OrEmpty(intent.target), intent.action, None)
    ELSE IF intent.type = "toggle_setting"
    THEN DeviceAction(id, "toggle", OrEmpty(intent.target), intent.action, None)
    ELSE DeviceAction(id, "adjust", OrEmpty(intent.target), intent.action,
                      intent.value)

\* the DeviceAction create_interaction builds for an actionable intent
ToAction(intent, id) ==
    IF intent.type = "open_app"
    THEN DeviceAction(id, "open_app", OrEmpty(intent.target), Some("open"), None)
    ELSE IF intent.type = "toggle_setting"
    THEN DeviceAction(id, "toggle", OrEmpty(intent.target), intent.action, None)
    ELSE DeviceAction(id, "adjust", OrEmpty(intent.target), intent.action,
                      intent.value)

\* create_document("deviceaction", action.model_dump())
InsertOne(docs, action) ==
    Append(docs, [ _id |-> ObjectId(docs), id |-> action.id,
                   kind |-> action.kind, target |-> action.target,
                   action |-> action.action, value |-> action.value,
                   status |-> action.status, device_id |-> action.device_id,
                   result |-> action.result, updated_at |-> None ])

\* variant: the newest pending document is picked
FindOnePending_Newest(docs) ==
    LET hits == { i \in 1..Len(docs) : docs[i].status = "pending" }
    IN  IF hits = {} THEN None
        ELSE Some(docs[CHOOSE i \in hits : \A j \in hits : i >= j])

\* find_one({"status": "pending"}): the first matching document, or None
FindOnePending(docs) ==
    LET hits == { i \in 1..Len(docs) : docs[i].status = "pending" }
    IN  IF hits = {} THEN None
        ELSE Some(docs[CHOOSE i \in hits : \A j \in hits : i <= j])

\* variant: the new status is written under the key "action"
SetReserved_WrongKey(doc, device_id, now) ==
    [ doc EXCEPT !.action = Some("reserved"), !.device_id = device_id,
                 !.updated_at = Some(now) ]

\* {"$set": {"status": "reserved", "device_id": device_id, "updated_at": now}}
SetReserved(doc, device_id, now) ==
    [ doc EXCEPT !.status = "reserved", !.device_id = device_id,
                 !.updated_at = Some(now) ]

\* variant: a failed action is put back in the queue
SetCompleted_RequeueOnFail(doc, status, result, now) ==
    [ doc EXCEPT !.status = IF status = "failed" THEN "pending" ELSE status,
                 !.result = result, !.updated_at = Some(now) ]

\* variant: a report on an already terminal document is stored as failed
SetCompleted_DuplicateFails(doc, status, result, now) ==
    [ doc EXCEPT !.status = IF Terminal(doc.status) THEN "failed" ELSE status,
                 !.result = result, !.updated_at = Some(now) ]

\* {"$set": {"status": payload.status, "result": payload.result,
\*           "updated_at": now}}
SetCompleted(doc, status, result, now) ==
    [ doc EXCEPT !.status = status, !.result = result,
                 !.updated_at = Some(now) ]

\* the positions update_one({"_id": oid}, ...) matches
MatchById(docs, oid) == { i \in 1..Len(docs) : docs[i]._id = oid }

\* variant: the filter is dropped, every document matches
MatchByActionId_NoFilter(docs, action_id) == 1..Len(docs)

\* the positions update_one({"id": action_id}, ...) matches
MatchByActionId(docs, action_id) ==
    { i \in 1..Len(docs) : docs[i].id = action_id }

\* update_one changes the first matching document only
First(S) == CHOOSE i \in S : \A j \in S : i <= j

\* the DeviceAction get_next_action returns for the document it read
ReservedResponse(doc, device_id) ==
    [ id |-> doc.id, kind |-> doc.kind, target |-> doc.target,
      action |-> doc.action, value |-> doc.value, status |-> "reserved",
      device_id |-> device_id, result |-> None ]


\* ------------------------------------------------------ the classifier
\* A str the classifier reads is the sequence of its characters.
UpperCase ==
    << "A", "B", "C", "D", "E", "F", "G", "H", "I", "J", "K", "L", "M",
       "N", "O", "P", "Q", "R", "S", "T", "U", "V", "W", "X", "Y", "Z" >>

LowerCase ==
    << "a", "b", "c", "d", "e", "f", "g", "h", "i", "j", "k", "l", "m",
       "n", "o", "p", "q", "r", "s", "t", "u", "v", "w", "x", "y", "z" >>

Digits == << "0", "1", "2", "3", "4", "5", "6", "7", "8", "9" >>

IsSpace(c) == c \in { " ", "\t", "\n" }

IsDigit(c) == \E k \in 1..Len(Digits) : Digits[k] = c

\* str.lower()
lower(str) ==
    [ i \in 1..Len(str) |->
        IF \E k \in 1..Len(UpperCase) : UpperCase[k] = str[i]
        THEN LowerCase[CHOOSE k \in 1..Len(UpperCase) : UpperCase[k] = str[i]]
        ELSE str[i] ]

\* str.strip()
RECURSIVE strip(_)
strip(str) ==
    IF str = << >> THEN str
    ELSE IF IsSpace(Head(str)) THEN strip(Tail(str))
    ELSE IF IsSpace(str[Len(str)]) THEN strip(SubSeq(str, 1, Len(str) - 1))
    ELSE str

\* str.split(): the maximal runs of characters that are not whitespace
RECURSIVE split(_)
split(str) ==
    IF str = << >> THEN << >>
    ELSE IF IsSpace(Head(str)) THEN split(Tail(str))
    ELSE LET stops == { i \in 1..Len(str) : IsSpace(str[i]) }
             end   == IF stops = {} THEN Len(str) + 1
                      ELSE CHOOSE i \in stops : \A j \in stops : i <= j
         IN  << SubSeq(str, 1, end - 1) >> \o split(SubSeq(str, end, Len(str)))

\* " ".join(words)
RECURSIVE join(_)
join(words) ==
    IF words = << >> THEN << >>
    ELSE IF Len(words) = 1 THEN words[1]
    ELSE words[1] \o << " " >> \o join(Tail(words))

normalize(str) == join(split(strip(lower(str))))

\* str.startswith(prefix)
startswith(str, prefix) ==
    Len(str) >= Len(prefix) /\ SubSeq(str, 1, Len(prefix)) = prefix

\* `part in str`
contains(str, part) ==
    \E i \in 0..(Len(str) - Len(part)) :
      SubSeq(str, i + 1, i + Len(part)) = part

\* any(w in str for w in words)
containsAny(str, words) == \E k \in 1..Len(words) : contains(str, words[k])

\* str.split(" ", 1)[1], for a str with a space in it
AfterFirstSpace(str) ==
    LET at == CHOOSE i \in 1..Len(str) :
                str[i] = " " /\ \A j \in 1..(i - 1) : str[j] # " "
    IN  SubSeq(str, at + 1, Len(str))

\* int(digits)
RECURSIVE int(_)
int(digits) ==
    IF digits = << >> THEN 0
    ELSE 10 * int(SubSeq(digits, 1, Len(digits) - 1))
         + ( (CHOOSE k \in 1..Len(Digits) : Digits[k] = digits[Len(digits)]) - 1 )

\* re.search(r"(\d+)%", str): the group of the leftmost match, or None.
\* A match starts at i when the whole run of digits from i ends at a "%".
PercentMatches(str) ==
    { p \in (1..Len(str)) \X (1..Len(str)) :
        /\ p[1] <= p[2]
        /\ \A k \in p[1]..p[2] : IsDigit(str[k])
        /\ p[2] < Len(str)
        /\ str[p[2] + 1] = "%" }

SearchPercent(str) ==
    LET ms == PercentMatches(str)
    IN  IF ms = {} THEN None
        ELSE LET m == CHOOSE p \in ms : \A q \in ms : p[1] <= q[1]
             IN  Some(SubSeq(str, m[1], m[2]))

\* COMMON_APPS, in declaration order
COMMON_APPS ==
    << [ key |-> << "w", "h", "a", "t", "s", "a", "p", "p" >>,
         aliases |-> << << "w", "h", "a", "t", "s", "a", "p", "p" >>,
                      << "w", "h", "a", "t", "s", " ", "a", "p", "p" >> >> ],
       [ key |-> << "i", "n", "s", "t", "a", "g", "r", "a", "m" >>,
         aliases |-> << << "i", "n", "s", "t", "a", "g", "r", "a", "m" >>,
                      << "i", "n", "s", "t", "a" >> >> ],
       [ key |-> << "y", "o", "u", "t", "u", "b", "e" >>,
         aliases |-> << << "y", "o", "u", "t", "u", "b", "e" >>,
                      << "y", "t" >> >> ],
       [ key |-> << "t", "w", "i", "t", "t", "e", "r" >>,
         aliases |-> << << "t", "w", "i", "t", "t", "e", "r" >>,
                      << "x" >> >> ],
       [ key |-> << "f", "a", "c", "e", "b", "o", "o", "k" >>,
         aliases |-> << << "f", "a", "c", "e", "b", "o", "o", "k" >>,
                      << "f", "b" >> >> ],
       [ key |-> << "c", "a", "m", "e", "r", "a" >>,
         aliases |-> << << "c", "a", "m", "e", "r", "a" >> >> ],
       [ key |-> << "s", "e", "t", "t", "i", "n", "g", "s" >>,
         aliases |-> << << "s", "e", "t", "t", "i", "n", "g", "s" >> >> ],
       [ key |-> << "c", "h", "r", "o", "m", "e" >>,
         aliases |-> << << "c", "h", "r", "o", "m", "e" >>,
                      << "b", "r", "o", "w", "s", "e", "r" >> >> ],
       [ key |-> << "g", "m", "a", "i", "l" >>,
         aliases |-> << << "g", "m", "a", "i", "l" >>,
                      << "m", "a", "i", "l" >> >> ] >>

\* SETTINGS, in declaration order
SETTINGS ==
    << [ key |-> << "w", "i", "f", "i" >>,
         aliases |-> << << "w", "i", "-", "f", "i" >>,
                      << "w", "i", "f", "i" >> >> ],
       [ key |-> << "b", "l", "u", "e", "t", "o", "o", "t", "h" >>,
         aliases |-> << << "b", "l", "u", "e", "t", "o", "o", "t", "h" >> >> ],
       [ key |-> << "d", "a", "t", "a" >>,
         aliases |-> << << "m", "o", "b", "i", "l", "e", " ", "d", "a", "t", "a" >>,
                      << "d", "a", "t", "a" >>,
                      << "c", "e", "l", "l", "u", "l", "a", "r" >> >> ],
       [ key |-> << "f", "l", "a", "s", "h", "l", "i", "g", "h", "t" >>,
         aliases |-> << << "f", "l", "a", "s", "h", "l", "i", "g", "h", "t" >>,
                      << "t", "o", "r", "c", "h" >> >> ],
       [ key |-> << "a", "i", "r", "p", "l", "a", "n", "e" >>,
         aliases |-> << << "a", "i", "r", "p", "l", "a", "n", "e" >>,
                      << "f", "l", "i", "g", "h", "t", " ", "m", "o", "d", "e" >> >> ],
       [ key |-> << "d", "n", "d" >>,
         aliases |-> << << "d", "o", " ", "n", "o", "t", " ", "d", "i", "s", "t", "u", "r", "b" >>,
                      << "d", "n", "d" >> >> ],
       [ key |-> << "l", "o", "c", "a", "t", "i", "o", "n" >>,
         aliases |-> << << "l", "o", "c", "a", "t", "i", "o", "n" >>,
                      << "g", "p", "s" >> >> ],
       [ key |-> << "h", "o", "t", "s", "p", "o", "t" >>,
         aliases |-> << << "h", "o", "t", "s", "p", "o", "t" >>,
                      << "t", "e", "t", "h", "e", "r", "i", "n", "g" >> >> ] >>

\* ADJUSTABLES, in declaration order
ADJUSTABLES ==
    << [ key |-> << "v", "o", "l", "u", "m", "e" >>,
         aliases |-> << << "v", "o", "l", "u", "m", "e" >>,
                      << "s", "o", "u", "n", "d" >> >> ],
       [ key |-> << "b", "r", "i", "g", "h", "t", "n", "e", "s", "s" >>,
         aliases |-> << << "b", "r", "i", "g", "h", "t", "n", "e", "s", "s" >>,
                      << "d", "i", "s", "p", "l", "a", "y" >> >> ] >>

\* the trigger phrases of the tiers
OnTriggers ==
    << << "t", "u", "r", "n", " ", "o", "n" >>,
       << "e", "n", "a", "b", "l", "e" >>,
       << "s", "w", "i", "t", "c", "h", " ", "o", "n" >> >>

OffTriggers ==
    << << "t", "u", "r", "n", " ", "o", "f", "f" >>,
       << "d", "i", "s", "a", "b", "l", "e" >>,
       << "s", "w", "i", "t", "c", "h", " ", "o", "f", "f" >> >>

IncreaseTriggers ==
    << << "i", "n", "c", "r", "e", "a", "s", "e" >>,
       << "t", "u", "r", "n", " ", "u", "p" >>,
       << "r", "a", "i", "s", "e" >> >>

DecreaseTriggers ==
    << << "d", "e", "c", "r", "e", "a", "s", "e" >>,
       << "t", "u", "r", "n", " ", "d", "o", "w", "n" >>,
       << "l", "o", "w", "e", "r" >> >>

SetTrigger == << "s", "e", "t", " " >>

OpenPrefix == << "o", "p", "e", "n", " " >>

LaunchPrefix == << "l", "a", "u", "n", "c", "h", " " >>

\* the action names parse_intent assigns
Open == << "o", "p", "e", "n" >>
On == << "o", "n" >>
Off == << "o", "f", "f" >>
Increase == << "i", "n", "c", "r", "e", "a", "s", "e" >>
Decrease == << "d", "e", "c", "r", "e", "a", "s", "e" >>
Set == << "s", "e", "t" >>

\* for key, aliases in table.items(): the first of the entries numbered in
\* hits, the ones that satisfy the test of the loop
FirstEntry(table, hits) ==
    IF hits = {} THEN None
    ELSE Some(table[CHOOSE k \in hits : \A j \in hits : k <= j])

\* any(a in t for a in aliases)
AliasIn(t, entry) == containsAny(t, entry.aliases)

\* app_name in aliases or key in app_name
AppMatches(app_name, entry) ==
    \/ \E k \in 1..Len(entry.aliases) : entry.aliases[k] = app_name
    \/ contains(app_name, entry.key)

\* intent = Intent(type="unknown", raw_text=text), with the normalized
\* text kept in place of the text received
NewIntent_Normalized(str) ==
    [ Intent("unknown", None, None, None)
        EXCEPT !.raw_text = Some(normalize(str)) ]

\* intent = Intent(type="unknown", raw_text=text)
NewIntent(str) ==
    [ Intent("unknown", None, None, None) EXCEPT !.raw_text = Some(str) ]

\* the tier "Open app" with the requested name always kept as the target
OpenTier_VerbatimTarget(t, intent) ==
    [ intent EXCEPT !.type = "open_app",
                    !.target = Some(AfterFirstSpace(t)),
                    !.action = Some(Open) ]

\* the tier "Open app" of parse_intent, entered on its prefix
OpenTier(t, intent) ==
    LET app_name == AfterFirstSpace(t)
        app == FirstEntry(COMMON_APPS,
                          { k \in 1..Len(COMMON_APPS) :
                              AppMatches(app_name, COMMON_APPS[k]) })
    IN  [ intent EXCEPT !.type = "open_app",
                        !.target = IF app = None THEN Some(app_name)
                                   ELSE Some(app[1].key),
                        !.action = Some(Open) ]

\* a tier "Toggle settings" that answers unknown when its trigger is in the
\* text and no setting is
ToggleTier_StopsAtTrigger(t, intent, triggers, action) ==
    IF ~ containsAny(t, triggers) THEN None
    ELSE LET setting == FirstEntry(SETTINGS,
                                   { k \in 1..Len(SETTINGS) :
                                       AliasIn(t, SETTINGS[k]) })
         IN  IF setting = None THEN Some(intent)
             ELSE Some([ intent EXCEPT !.type = "toggle_setting",
                                       !.target = Some(setting[1].key),
                                       !.action = Some(action) ])

\* a tier "Toggle settings": the intent, or None to fall through
ToggleTier(t, intent, triggers, action) ==
    IF ~ containsAny(t, triggers) THEN None
    ELSE LET setting == FirstEntry(SETTINGS,
                                   { k \in 1..Len(SETTINGS) :
                                       AliasIn(t, SETTINGS[k]) })
         IN  IF setting = None THEN None
             ELSE Some([ intent EXCEPT !.type = "toggle_setting",
                                       !.target = Some(setting[1].key),
                                       !.action = Some(action) ])

\* the action of the tier "Adjust settings" with the prefix "set " tried
\* first
AdjustAction_SetFirst(t) ==
    IF startswith(t, SetTrigger) THEN Some(Set)
    ELSE IF containsAny(t, IncreaseTriggers) THEN Some(Increase)
    ELSE IF containsAny(t, DecreaseTriggers) THEN Some(Decrease)
    ELSE None

\* the action the tier "Adjust settings" picks
AdjustAction(t) ==
    IF containsAny(t, IncreaseTriggers) THEN Some(Increase)
    ELSE IF containsAny(t, DecreaseTriggers) THEN Some(Decrease)
    ELSE IF startswith(t, SetTrigger) THEN Some(Set)
    ELSE None

\* the tier "Adjust settings": the intent, or None to fall through
AdjustTier(t, intent) ==
    IF ~ containsAny(t, IncreaseTriggers \o DecreaseTriggers \o << SetTrigger >>)
    THEN None
    ELSE LET setting == FirstEntry(ADJUSTABLES,
                                   { k \in 1..Len(ADJUSTABLES) :
                                       AliasIn(t, ADJUSTABLES[k]) })
             m == SearchPercent(t)
         IN  IF setting = None THEN None
             ELSE Some([ intent EXCEPT
                           !.type = "adjust_setting",
                           !.target = Some(setting[1].key),
                           !.action = AdjustAction(t),
                           !.value = IF m = None THEN None
                                     ELSE Some(int(m[1])) ])

parse_intent(str) ==
    LET t == normalize(str)
        intent == NewIntent(str)
        on == ToggleTier(t, intent, OnTriggers, On)
        off == ToggleTier(t, intent, OffTriggers, Off)
        adjust == AdjustTier(t, intent)
    IN  IF startswith(t, OpenPrefix) \/ startswith(t, LaunchPrefix)
        THEN OpenTier(t, intent)
        ELSE IF on # None THEN on[1]
        ELSE IF off # None THEN off[1]
        ELSE IF adjust # None THEN adjust[1]
        ELSE intent

\* the words and phrases the requests are made of
Vocabulary ==
    << << "o", "p", "e", "n" >>,
       << "L", "a", "u", "n", "c", "h" >>,
       << "t", "u", "r", "n", " ", "o", "n" >>,
       << "t", "u", "r", "n", " ", "o", "f", "f" >>,
       << "w", "i", "f", "i" >>,
       << "d", "a", "t", "a" >>,
       << "r", "a", "i", "s", "e" >>,
       << "l", "o", "w", "e", "r" >>,
       << "s", "e", "t" >>,
       << "r", "e", "s", "e", "t" >>,
       << "v", "o", "l", "u", "m", "e" >>,
       << "d", "i", "s", "p", "l", "a", "y" >>,
       << "4", "0", "%" >>,
       << "w", "h", "a", "t", "s", " ", "a", "p", "p" >>,
       << "c", "a", "m", "e", "r", "a" >> >>

\* the texts of up to MaxWords entries of the vocabulary
WordLists == UNION { [ 1..n -> 1..Len(Vocabulary) ] : n \in 0..MaxWords }

\* the spacing between the words: single spaces; or a leading space, double
\* spaces and a trailing space; or single spaces and a trailing space
Spacings == { "plain", "padded", "trailing" }

RECURSIVE Render(_, _)
Render(picks, spacing) ==
    IF picks = << >>
    THEN IF spacing = "plain" THEN << >> ELSE << " " >>
    ELSE LET gap == IF spacing = "padded" THEN << " ", " " >> ELSE << " " >>
             rest == Tail(picks)
         IN  IF rest = << >>
             THEN Vocabulary[picks[1]]
                    \o ( IF spacing = "plain" THEN << >> ELSE << " " >> )
             ELSE Vocabulary[picks[1]] \o gap \o Render(rest, spacing)

Texts ==
    { IF sp = "padded" /\ ws # << >> THEN << " " >> \o Render(ws, sp)
      ELSE Render(ws, sp) : ws \in WordLists, sp \in Spacings }

\* ---------------------------------------------------------------- Init
Init ==
    /\ store = << >>
    /\ clock = 0
    /\ pc = [ d \in Devices |-> "idle" ]
    /\ pending = [ d \in Devices |-> None ]
    /\ returned = {}
    /\ last = [ op |-> "init" ]
    /\ text = << >>
    /\ parsed = None

\* a request to /api/parse is about to be served; the queue is empty
InitParse ==
    /\ store = << >>
    /\ clock = 0
    /\ pc = [ d \in Devices |-> "idle" ]
    /\ pending = [ d \in Devices |-> None ]
    /\ returned = {}
    /\ last = [ op |-> "init" ]
    /\ text \in Texts
    /\ parsed = None

\* ------------------------------------------------------------- actions
\* datetime.now(timezone.utc): no earlier than the reading before it
Now(latest) == { t \in { latest, latest + 1 } : t >= 1 /\ t <= MaxClock }

\* POST /api/interactions
create_interaction(item_intent) ==
    /\ IF Actionable(item_intent)
       THEN /\ Len(store) < MaxActions
            /\ store' = InsertOne(store, ToAction(item_intent[1], uuid4(store)))
       ELSE store' = store
    /\ last' = [ op |-> "create_interaction", intent |-> item_intent ]
    /\ UNCHANGED << clock, pc, pending, returned, text, parsed >>

\* GET /api/actions/next?device_id=d, first half: find_one, and
\* `return None` on a miss
get_next_action_find(d) ==
    /\ pc[d] = "idle"
    /\ LET found == FindOnePending(store)
       IN  IF found = None
           THEN /\ last' = [ op |-> "get_next_action", out |-> None ]
                /\ UNCHANGED << pc, pending >>
           ELSE /\ pc' = [ pc EXCEPT ![d] = "found" ]
                /\ pending' = [ pending EXCEPT ![d] = found ]
                /\ last' = [ op |-> "find_one" ]
    /\ UNCHANGED << store, clock, returned, text, parsed >>

\* GET /api/actions/next?device_id=d, second half: update_one by _id, and
\* the response
get_next_action_update(d) ==
    /\ pc[d] = "found"
    /\ LET doc == pending[d][1]
           hit == MatchById(store, doc._id)
           out == ReservedResponse(doc, Some(d))
       IN  /\ \E now \in Now(clock) :
                /\ clock' = now
                /\ store' = IF hit = {} THEN store
                            ELSE [ store EXCEPT ![First(hit)] =
                                     SetReserved(@, Some(d), now) ]
           /\ returned' = returned \cup { [ caller |-> d, action |-> out ] }
           /\ last' = [ op |-> "get_next_action", out |-> Some(out) ]
    /\ pc' = [ pc EXCEPT ![d] = "idle" ]
    /\ pending' = [ pending EXCEPT ![d] = None ]
    /\ UNCHANGED << text, parsed >>

\* POST /api/actions/{action_id}/complete
complete_action(action_id, status, result) ==
    /\ LET hit == MatchByActionId(store, action_id)
       IN  IF hit = {}
           THEN /\ last' = [ op |-> "complete_action",
                             action_id |-> action_id, out |-> 404 ]
                /\ UNCHANGED << store, clock >>
           ELSE /\ \E now \in Now(clock) :
                     /\ clock' = now
                     /\ store' = [ store EXCEPT ![First(hit)] =
                                     SetCompleted(@, status, result, now) ]
                /\ last' = [ op |-> "complete_action",
                             action_id |-> action_id, out |-> 200,
                             status |-> status, result |-> result,
                             was |-> [ status |-> store[First(hit)].status,
                                       result |-> store[First(hit)].result ] ]
    /\ UNCHANGED << pc, pending, returned, text, parsed >>

\* POST /api/parse
api_parse ==
    /\ parsed = None
    /\ parsed' = Some(parse_intent(text))
    /\ last' = [ op |-> "api_parse" ]
    /\ UNCHANGED << store, clock, pc, pending, returned, text >>

Next ==
    \/ \E it \in IntentInputs : create_interaction(it)
    \/ \E d \in Devices : get_next_action_find(d)
    \/ \E d \in Devices : get_next_action_update(d)
    \/ \E id \in ActionIds, s \in CompleteStatuses, r \in Results :
          complete_action(id, s, r)

Spec == Init /\ [][Next]_vars

\* The devices at work: an action id leaves the server only in a response
\* of get_next_action, so a device reports on ids it has been handed;
\* every device keeps polling and the server finishes each request.
HandedOut == { x.action.id : x \in returned }

NextDevices ==
    \/ \E it \in IntentInputs : create_interaction(it)
    \/ \E d \in Devices : get_next_action_find(d)
    \/ \E d \in Devices : get_next_action_update(d)
    \/ \E id \in HandedOut, s \in CompleteStatuses, r \in Results :
          complete_action(id, s, r)

\* The action factory on its own: interactions are posted, nothing polls.
NextFactory ==
    \E it \in IntentInputs \cup ClientIntents : create_interaction(it)

SpecFactory == Init /\ [][NextFactory]_vars

\* The classifier on its own: one request to /api/parse is served.
NextParse == api_parse

SpecParse == InitParse /\ [][NextParse]_vars

FairSpec ==
    /\ Init
    /\ [][NextDevices]_vars
    /\ \A d \in Devices : WF_vars(get_next_action_find(d))
    /\ \A d \in Devices : WF_vars(get_next_action_update(d))

\* ------------------------------------------------------------ vocabulary
LegalTransitions ==
    { << "pending", "reserved" >>, << "reserved", "completed" >>,
      << "reserved", "failed" >> }

\* the positions of the documents carrying the given action id
Holding(docs, action_id) == { i \in 1..Len(docs) : docs[i].id = action_id }

\* a document without its update timestamp
Fields(doc) ==
    [ _id |-> doc._id, id |-> doc.id, kind |-> doc.kind, target |-> doc.target,
      action |-> doc.action, value |-> doc.value, status |-> doc.status,
      device_id |-> doc.device_id, result |-> doc.result ]

\* the step just taken served a completion that matched a document
Completed(l) == l.op = "complete_action" /\ l.out = 200

\* the step just taken returned a reserved DeviceAction to a device
Claimed(l) == l.op = "get_next_action" /\ l.out # None

\* ------------------------------------------------------------------ C1
\* C1: no DeviceAction is returned as reserved to two distinct callers of
\* get_next_action, whatever the interleaving of their requests.
C1_ReturnedToOneCaller ==
    \A x, y \in returned : x.action.id = y.action.id => x.caller = y.caller

\* ------------------------------------------------------------------ C2
\* C2: a record's status only moves pending -> reserved, reserved ->
\* completed or reserved -> failed.
C2_OnlyLegalTransitions ==
    [][ \A i \in 1..Len(store) :
          store'[i].status # store[i].status
            => << store[i].status, store'[i].status >> \in LegalTransitions ]_vars

\* ------------------------------------------------------------------ C3
\* C3: once a record is completed or failed, no later step changes its
\* status or its result.
C3_TerminalIsFinal ==
    [][ \A i \in 1..Len(store) :
          Terminal(store[i].status)
            => /\ store'[i].status = store[i].status
               /\ store'[i].result = store[i].result ]_vars

\* ------------------------------------------------------------------ C4
\* C4: a completion naming a record that is not reserved (pending, or
\* terminal with another status or result) is answered with an error and
\* changes nothing.
C4_ConflictingCompleteRejected ==
    [][ last'.op = "complete_action"
          => \A i \in Holding(store, last'.action_id) :
               ( \/ store[i].status = "pending"
                 \/ /\ Terminal(store[i].status)
                    /\ \/ last'.out # 200
                       \/ store[i].status # last'.status
                       \/ store[i].result # last'.result )
               => last'.out # 200 /\ store' = store ]_vars

C6_UnknownIdNotFound ==
    [][ ( last'.op = "complete_action" /\ Holding(store, last'.action_id) = {} )
          => last'.out = 404 /\ store' = store ]_vars

\* a completion was answered 404 while the queue held records
C6_Witness ==
    /\ last.op = "complete_action"
    /\ last.out = 404
    /\ Len(store) >= 1
    /\ Holding(store, last.action_id) = {}

C8_ClaimIsAtomic ==
    [][ /\ Claimed(last')
          => \E i \in Holding(store, last'.out[1].id) :
               /\ store[i].status = "pending"
               /\ store' = [ store EXCEPT
                              ![i] = [ @ EXCEPT !.status = "reserved",
                                         !.device_id = last'.out[1].device_id,
                                         !.updated_at = store'[i].updated_at ] ]
        /\ ( last'.op = "get_next_action" /\ last'.out = None )
          => store' = store ]_vars

\* ------------------------------------------------------------------ C9
\* C9: no step removes a document or changes the id, kind, target, action
\* or value of one.
C9_ContentImmutable ==
    [][ /\ Len(store') >= Len(store)
        /\ \A i \in 1..Len(store) :
             /\ store'[i].id = store[i].id
             /\ store'[i].kind = store[i].kind
             /\ store'[i].target = store[i].target
             /\ store'[i].action = store[i].action
             /\ store'[i].value = store[i].value ]_vars

\* a record carrying a value has been claimed and then completed
C9_Witness ==
    \E i \in 1..Len(store) :
      /\ Terminal(store[i].status)
      /\ store[i].device_id # None
      /\ store[i].value # None
      /\ \E x \in returned : x.action.id = store[i].id

\* ----------------------------------------------------------------- C10
\* C10: create_interaction appends nothing when the intent is absent or
\* unknown, and otherwise appends exactly one document: pending, without
\* device_id and result, under an id no earlier document carries.
C10_EnqueueIffActionable ==
    [][ last'.op = "create_interaction"
          => IF last'.intent = None \/ last'.intent[1].type = "unknown"
             THEN store' = store
             ELSE /\ Len(store') = Len(store) + 1
                  /\ SubSeq(store', 1, Len(store)) = store
                  /\ LET new == store'[Len(store')]
                     IN  /\ new.status = "pending"
                         /\ new.device_id = None
                         /\ new.result = None
                         /\ \A i \in 1..Len(store) : store[i].id # new.id ]_vars

\* an actionable intent has been enqueued behind an earlier record
C10_Witness ==
    /\ last.op = "create_interaction"
    /\ Actionable(last.intent)
    /\ Len(store) >= 2
    /\ store[Len(store)].status = "pending"

\* ----------------------------------------------------------------- C11
\* C11: a pending record has no device_id, and a pending or reserved
\* record has no result.
C11_NullUntilSet ==
    \A i \in 1..Len(store) :
      /\ store[i].status = "pending" => store[i].device_id = None
      /\ store[i].status \in { "pending", "reserved" } => store[i].result = None

\* ----------------------------------------------------------------- C12
\* C12: a record that is no longer pending never becomes pending again,
\* and a reserved record leaves reserved only in a step that serves a
\* completion naming it.
C12_NoWayBack ==
    [][ \A i \in 1..Len(store) :
          /\ store[i].status # "pending" => store'[i].status # "pending"
          /\ ( store[i].status = "reserved" /\ store'[i].status # "reserved" )
               => Completed(last') /\ last'.action_id = store[i].id ]_vars

\* a record is still reserved after a completion of another record
C12_Witness ==
    /\ Completed(last)
    /\ \E i \in 1..Len(store) :
         /\ store[i].status = "reserved"
         /\ store[i].id # last.action_id
         /\ \E x \in returned : x.action.id = store[i].id

\* ----------------------------------------------------------------- C15
\* the record a step of create_interaction has appended for its intent
Enqueued(docs) == docs[Len(docs)]

\* C15 as stated: open_app gives kind "open" and action "open", toggle_setting
\* kind "toggle" and the intent's action, adjust_setting kind "adjust" and
\* the intent's action and value; the target is the intent's target.
C15_FactoryAsStated ==
    [][ ( last'.op = "create_interaction" /\ Actionable(last'.intent) )
          => LET it  == last'.intent[1]
                 new == Enqueued(store')
             IN  /\ Some(new.target) = it.target
                 /\ it.type = "open_app"
                      => new.kind = "open" /\ new.action = Some("open")
                 /\ it.type = "toggle_setting"
                      => new.kind = "toggle" /\ new.action = it.action
                 /\ it.type = "adjust_setting"
                      => /\ new.kind = "adjust"
                         /\ new.action = it.action
                         /\ new.value = it.value ]_vars

\* C15 amended: the kind of an open_app record is "open_app", and the target
\* is the intent's target, or the empty string when the intent has none.
C15_FactoryMapping ==
    [][ ( last'.op = "create_interaction" /\ Actionable(last'.intent) )
          => LET it  == last'.intent[1]
                 new == Enqueued(store')
             IN  /\ Len(store') = Len(store) + 1
                 /\ IF it.target = None THEN new.target = ""
                                        ELSE Some(new.target) = it.target
                 /\ it.type = "open_app"
                      => new.kind = "open_app" /\ new.action = Some("open")
                 /\ it.type = "toggle_setting"
                      => new.kind = "toggle" /\ new.action = it.action
                 /\ it.type = "adjust_setting"
                      => /\ new.kind = "adjust"
                         /\ new.action = it.action
                         /\ new.value = it.value ]_vars

\* an open_app intent without target and action has been enqueued behind a
\* record made from an adjust_setting intent
C15_Witness ==
    /\ last.op = "create_interaction"
    /\ Actionable(last.intent)
    /\ last.intent[1].type = "open_app"
    /\ last.intent[1].target = None
    /\ Len(store) >= 2
    /\ store[Len(store)].target = ""
    /\ store[Len(store)].action = Some("open")
    /\ store[1].kind = "adjust" /\ store[1].value = Some(40)

C20_OwnerIsReceiver ==
    \A x \in returned :
      \A i \in Holding(store, x.action.id) :
        store[i].device_id = x.action.device_id

\* ------------------------------------------- vocabulary of the classifier
\* the text the tiers look at
Normalized == normalize(text)

OpenPrefixed(str) ==
    startswith(str, OpenPrefix) \/ startswith(str, LaunchPrefix)

\* the entries of a table one of whose aliases occurs in str
EntriesIn(table, str) ==
    { k \in 1..Len(table) :
        \E a \in 1..Len(table[k].aliases) : contains(str, table[k].aliases[a]) }

\* the apps that answer to a requested name
AppsNamed(name) ==
    { k \in 1..Len(COMMON_APPS) :
        \/ \E a \in 1..Len(COMMON_APPS[k].aliases) :
             COMMON_APPS[k].aliases[a] = name
        \/ contains(name, COMMON_APPS[k].key) }

Lowest(ks) == CHOOSE k \in ks : \A j \in ks : k <= j

\* ----------------------------------------------------------------- C13
\* C13: the Intent parse_intent returns has a non-null target and a non-null
\* action whenever its type is not unknown.
C13_TypedHasTargetAndAction ==
    parsed # None /\ parsed[1].type # "unknown" =>
      parsed[1].target # None /\ parsed[1].action # None

\* ----------------------------------------------------------------- C14
\* C14 as stated: every input that starts with "open " or "launch " is
\* answered with type open_app, a non-null target and action "open"; the
\* target is the key of an app when the remainder equals one of its aliases
\* or contains its key, and the remainder verbatim otherwise.
C14_OpenTierOnInput ==
    parsed # None /\ OpenPrefixed(text) =>
      LET remainder == AfterFirstSpace(text)
      IN  /\ parsed[1].type = "open_app"
          /\ parsed[1].target # None
          /\ parsed[1].action = Some(Open)
          /\ IF AppsNamed(remainder) = {}
             THEN parsed[1].target = Some(remainder)
             ELSE \E k \in AppsNamed(remainder) :
                    parsed[1].target = Some(COMMON_APPS[k].key)

\* C14: every input whose normalized text starts with "open " or "launch "
\* is answered with type open_app, a non-null target and action "open",
\* whatever trigger phrases it also holds; the target is the key of an app
\* when the remainder of the normalized text equals one of its aliases or
\* contains its key, and that remainder verbatim otherwise.
C14_OpenTierOnNormalized ==
    parsed # None /\ OpenPrefixed(Normalized) =>
      LET remainder == AfterFirstSpace(Normalized)
      IN  /\ parsed[1].type = "open_app"
          /\ parsed[1].target # None
          /\ parsed[1].action = Some(Open)
          /\ IF AppsNamed(remainder) = {}
             THEN parsed[1].target = Some(remainder)
             ELSE \E k \in AppsNamed(remainder) :
                    parsed[1].target = Some(COMMON_APPS[k].key)

\* a text that only starts with "launch " once normalized, holds a
\* toggle-on trigger, and names an app within the remainder
C14_Witness ==
    /\ parsed # None
    /\ OpenPrefixed(Normalized)
    /\ ~ OpenPrefixed(text)
    /\ containsAny(Normalized, OnTriggers)
    /\ AppsNamed(AfterFirstSpace(Normalized)) # {}
    /\ parsed[1].target # Some(AfterFirstSpace(Normalized))
    /\ parsed[1].type = "open_app"

\* ----------------------------------------------------------------- C17
\* C17: parse_intent answers every text; the Intent's raw_text is the text
\* as received, not its normalized form; an Intent of type unknown has
\* target, action and value null.
C17_TotalAndRawTextKept ==
    parsed # None =>
      /\ parsed[1].type \in
           { "unknown", "open_app", "toggle_setting", "adjust_setting" }
      /\ parsed[1].raw_text = Some(text)
      /\ parsed[1].type = "unknown" =>
           /\ parsed[1].target = None
           /\ parsed[1].action = None
           /\ parsed[1].value = None

\* an unmatched text that normalization changes
C17_Witness ==
    /\ parsed # None
    /\ parsed[1].type = "unknown"
    /\ Normalized # text
    /\ Normalized # << >>
    /\ parsed[1].raw_text = Some(text)

\* ----------------------------------------------------------------- C18
\* C18: the tiers answer in the order open/launch, toggle-on, toggle-off,
\* adjust. Without the open prefix, a text with a toggle-on trigger and a
\* setting alias is answered toggle_setting "on" even when it also holds a
\* toggle-off trigger; one with a toggle-off trigger, a setting alias and no
\* toggle-on trigger is answered "off"; the target is the first setting in
\* declaration order one of whose aliases occurs in the text; and a text
\* with a toggle trigger and no setting alias is answered by the adjust tier
\* when it holds an increase or decrease trigger and an adjustable alias.
C18_TiersInOrder ==
    parsed # None =>
      LET t == Normalized
          on == containsAny(t, OnTriggers)
          off == containsAny(t, OffTriggers)
          settings == EntriesIn(SETTINGS, t)
          adjustables == EntriesIn(ADJUSTABLES, t)
      IN  /\ OpenPrefixed(t) => parsed[1].type = "open_app"
          /\ ~ OpenPrefixed(t) /\ (on \/ off) /\ settings # {} =>
               /\ parsed[1].type = "toggle_setting"
               /\ parsed[1].action = IF on THEN Some(On) ELSE Some(Off)
               /\ parsed[1].target = Some(SETTINGS[Lowest(settings)].key)
          /\ ( /\ ~ OpenPrefixed(t)
               /\ (on \/ off)
               /\ settings = {}
               /\ containsAny(t, IncreaseTriggers \o DecreaseTriggers)
               /\ adjustables # {} ) =>
               parsed[1].type = "adjust_setting"
          /\ ~ OpenPrefixed(t) /\ ~ on /\ ~ off =>
               parsed[1].type # "toggle_setting"

\* a text with a toggle-on trigger, a toggle-off trigger and a setting
C18_Witness ==
    /\ parsed # None
    /\ ~ OpenPrefixed(Normalized)
    /\ containsAny(Normalized, OnTriggers)
    /\ containsAny(Normalized, OffTriggers)
    /\ EntriesIn(SETTINGS, Normalized) # {}
    /\ parsed[1].action = Some(On)

\* ----------------------------------------------------------------- C19
\* C19: in an answer of the adjust tier the action is "increase" when the
\* text holds an increase trigger, else "decrease" when it holds a decrease
\* trigger, else "set" when it starts with "set "; the target is the first
\* adjustable in declaration order one of whose aliases occurs in the text;
\* the value is the integer written by the leftmost run of digits that a
\* percent sign follows, and null when the text has none.
C19_AdjustTier ==
    parsed # None /\ parsed[1].type = "adjust_setting" =>
      LET t == Normalized
          up == containsAny(t, IncreaseTriggers)
          down == containsAny(t, DecreaseTriggers)
          percents == { i \in 2..Len(t) : t[i] = "%" /\ IsDigit(t[i - 1]) }
      IN  /\ up => parsed[1].action = Some(Increase)
          /\ ~ up /\ down => parsed[1].action = Some(Decrease)
          /\ ~ up /\ ~ down /\ startswith(t, SetTrigger) =>
               parsed[1].action = Some(Set)
          /\ EntriesIn(ADJUSTABLES, t) # {}
          /\ parsed[1].target =
               Some(ADJUSTABLES[Lowest(EntriesIn(ADJUSTABLES, t))].key)
          /\ percents = {} => parsed[1].value = None
          /\ percents # {} =>
               LET end == Lowest(percents) - 1
                   start == Lowest({ i \in 1..end :
                                       \A k \in i..end : IsDigit(t[k]) })
               IN  parsed[1].value = Some(int(SubSeq(t, start, end)))

\* a text that starts with "set " and holds an increase trigger
C19_Witness ==
    /\ parsed # None
    /\ parsed[1].type = "adjust_setting"
    /\ startswith(Normalized, SetTrigger)
    /\ containsAny(Normalized, IncreaseTriggers)
    /\ parsed[1].action = Some(Increase)

====
